---- MODULE Spec2Model ----
(***************************************************************************)
(* Model of main.py of jarydo/tritone: the envelope shaper, the Shepard    *)
(* tone generator, the tritone pair generator and the sequence assembler.  *)
(*                                                                         *)
(* Numbers.  Times (duration, gap_duration, attack_time, release_time) are *)
(* integers counting hundredths of a second, frequencies are integers      *)
(* counting hundredths of a hertz, sample rates are integers in hertz.     *)
(* A floating-point sample is an exact fraction <<num, den>> in lowest     *)
(* terms with den > 0; the IEEE value NaN is <<0, 0>>.  Rounding of the    *)
(* floating-point operations is not modelled.                              *)
(***************************************************************************)
EXTENDS Integers, Sequences, FiniteSets, TLC

VARIABLES
    \* save_all_tritone_pairs: its arguments
    base_freq_map, duration, sample_rate, gap_duration,
    \* save_all_tritone_pairs: its locals and the two files
    pc, gap, items, next_item, combined, note_file, wav_file, synth,
    \* one call of apply_envelope: arguments and outcome
    env_call, env_result,
    \* one call of create_shepard_tone: arguments and outcome
    tone_call, tone_result

vars == <<base_freq_map, duration, sample_rate, gap_duration,
          pc, gap, items, next_item, combined, note_file, wav_file, synth,
          env_call, env_result, tone_call, tone_result>>

asm_vars == <<base_freq_map, duration, sample_rate, gap_duration,
              pc, gap, items, next_item, combined, note_file, wav_file, synth>>

-----------------------------------------------------------------------------
(* Bounds of the model *)

\* the table holds notes among the first MaxNotes of the source's table
MaxNotes == 3
\* sample rates are the multiples of 50 Hz up to 50 * MaxRateStep
MaxRateStep == 6
\* durations run up to MaxDuration hundredths of a second
MaxDuration == 2
\* gap durations run up to MaxGapDuration hundredths of a second
MaxGapDuration == 1
\* buffers handed to apply_envelope directly have up to MaxLen samples
MaxLen == 5
\* attack and release times handed to apply_envelope directly, in hundredths
MaxRampTime == 3

-----------------------------------------------------------------------------
(* Arithmetic on samples *)

Abs(x) == IF x < 0 THEN -x ELSE x

Sign(x) == IF x < 0 THEN -1 ELSE 1

RECURSIVE GCD(_, _)
GCD(a, b) == IF b = 0 THEN a ELSE GCD(b, a % b)

\* Python's int() of the quotient n/d (d > 0): truncation toward zero
Trunc(n, d) == Sign(n) * (Abs(n) \div d)

NaN == <<0, 0>>

IsNaN(x) == x[2] = 0

Zero == <<0, 1>>

\* the fraction n/d in lowest terms; d = 0 is the invalid operation 0/0
Frac(n, d) ==
    IF d = 0 THEN NaN
    ELSE LET g == GCD(Abs(n), Abs(d))
         IN  <<Sign(d) * (n \div g), Abs(d) \div g>>

\* floating-point product; NaN times anything (zero included) is NaN
Mul(x, y) == IF IsNaN(x) \/ IsNaN(y) THEN NaN ELSE Frac(x[1] * y[1], x[2] * y[2])

\* -1 <= x <= 1, false of NaN
InUnit(x) == ~IsNaN(x) /\ Abs(x[1]) <= x[2]

Zeros(n) == [i \in 1..n |-> Zero]

\* np.linspace(start, stop, num) for num >= 0: empty, <<start>>, or num
\* evenly spaced values from start to stop, both included
Linspace(start, stop, num) ==
    [i \in 1..num |->
        IF num = 1 THEN Frac(start, 1)
        ELSE Frac((num - 1) * start + (i - 1) * (stop - start), num - 1)]

-----------------------------------------------------------------------------
(* apply_envelope *)

\* signal[lo:hi] *= ramp on the 0-based half-open slice [lo, hi) of signal.
\* The in-place product needs the ramp to broadcast to the shape of the
\* slice: equal lengths, or a one-element ramp (against any slice, the empty
\* one included).  Anything else raises ValueError.
SliceBroadcastsTruncating(lo, hi, ramp) == Len(ramp) >= hi - lo \/ Len(ramp) = 1

SliceBroadcasts(lo, hi, ramp) == Len(ramp) = hi - lo \/ Len(ramp) = 1

SliceMul(signal, lo, hi, ramp) ==
    [i \in 1..Len(signal) |->
        IF lo < i /\ i <= hi
        THEN Mul(signal[i], IF Len(ramp) = 1 THEN ramp[1] ELSE ramp[i - lo])
        ELSE signal[i]]

\* start of the slice signal[-n:] for n >= 0; -0 is 0, so signal[-0:] is
\* the whole buffer
TailStart(len, n) == IF n = 0 THEN 0 ELSE IF n > len THEN 0 ELSE len - n

\* end of the slice signal[:n] for n >= 0
HeadEnd(len, n) == IF n > len THEN len ELSE n

Raised == [status |-> "raised", signal |-> <<>>]

Returned(signal) == [status |-> "returned", signal |-> signal]

\* the release product taken from the samples as they were on entry, so that
\* it overwrites what the attack ramp wrote
apply_envelope_release_wins(signal, rate, attack_time, release_time) ==
    LET attack_samples  == Trunc(attack_time * rate, 100)
        release_samples == Trunc(release_time * rate, 100)
    IN  IF attack_samples < 0 \/ release_samples < 0
        THEN Raised
        ELSE
        LET attack  == Linspace(0, 1, attack_samples)
            release == Linspace(1, 0, release_samples)
            n       == Len(signal)
            ahi     == HeadEnd(n, attack_samples)
            rlo     == TailStart(n, release_samples)
        IN  IF ~SliceBroadcasts(0, ahi, attack) THEN Raised
            ELSE LET attacked == SliceMul(signal, 0, ahi, attack)
                     released == SliceMul(signal, rlo, n, release)
                 IN  IF ~SliceBroadcasts(rlo, n, release) THEN Raised
                     ELSE Returned([i \in 1..n |->
                              IF i > rlo THEN released[i] ELSE attacked[i]])

apply_envelope(signal, rate, attack_time, release_time) ==
    LET attack_samples  == Trunc(attack_time * rate, 100)
        release_samples == Trunc(release_time * rate, 100)
    IN  IF attack_samples < 0 \/ release_samples < 0
        THEN Raised    \* np.linspace rejects a negative count
        ELSE
        LET attack  == Linspace(0, 1, attack_samples)
            release == Linspace(1, 0, release_samples)
            n       == Len(signal)
            ahi     == HeadEnd(n, attack_samples)
            rlo     == TailStart(n, release_samples)
        IN  IF ~SliceBroadcasts(0, ahi, attack) THEN Raised
            ELSE LET attacked == SliceMul(signal, 0, ahi, attack)
                 IN  IF ~SliceBroadcasts(rlo, n, release) THEN Raised
                     ELSE Returned(SliceMul(attacked, rlo, n, release))

-----------------------------------------------------------------------------
(* create_shepard_tone and create_tritone_pair *)

\* range(5): the octaves of one tone
Octaves == 5

\* default attack_time and release_time of apply_envelope, 0.01 s
DefaultRampTime == 1

\* np.exp(-0.5 * ((octave - 3) / 2) ** 2) for octave = 0..4, in hundredths
GaussWeight(octave) == <<32, 61, 88, 100, 88>>[octave + 1]

Pow2(k) == IF k = 0 THEN 1 ELSE IF k = 1 THEN 2 ELSE IF k = 2 THEN 4
           ELSE IF k = 3 THEN 8 ELSE 16

\* np.sin over one cycle cut in 16 steps, in tenths
SinTable == <<0, 4, 7, 9, 10, 9, 7, 4, 0, -4, -7, -9, -10, -9, -7, -4>>

\* np.sin(2 * np.pi * freq * t): freq in hundredths of a hertz, t a fraction
\* of hundredths of a second, so freq * t / 10000 cycles; t = 0 gives 0
SinCycles(freq, t) ==
    SinTable[(((freq * t[1] * 16) \div (10000 * t[2])) % 16) + 1]

RECURSIVE Partials(_, _, _)
\* the sum over octave = 0 .. k-1 of envelope * sin(2 pi freq t), times 10^3
Partials(base_freq, t, k) ==
    IF k = 0 THEN 0
    ELSE Partials(base_freq, t, k - 1)
         + GaussWeight(k - 1) * SinCycles(base_freq * Pow2(k - 1), t)

\* np.max(np.abs(signal)) of a non-empty integer sequence
MaxAbs(raw) ==
    CHOOSE m \in {Abs(raw[i]) : i \in 1..Len(raw)} :
        \A i \in 1..Len(raw) : Abs(raw[i]) <= m

\* signal / np.max(np.abs(signal)); 0/0 is NaN with a warning, not an error
Normalize(raw) == [i \in 1..Len(raw) |-> Frac(raw[i], MaxAbs(raw))]

\* int(sample_rate * duration)
NumSamples(dur, rate) == Trunc(rate * dur, 100)

create_shepard_tone(base_freq, dur, rate) ==
    LET n == NumSamples(dur, rate)
    IN  IF n < 0 THEN Raised        \* np.linspace rejects a negative count
        ELSE IF n = 0 THEN Raised   \* np.max of an empty array
        ELSE LET t   == Linspace(0, dur, n)
                 raw == [i \in 1..n |-> Partials(base_freq, t[i], Octaves)]
             IN  apply_envelope(Normalize(raw), rate,
                                DefaultRampTime, DefaultRampTime)

\* base_freq * (2 ** (6 / 12)), to the hundredth of a hertz
TritoneFreq(base_freq) == Trunc(base_freq * 14142, 10000)

create_tritone_pair(base_freq, dur, rate) ==
    LET tone1 == create_shepard_tone(base_freq, dur, rate)
        tone2 == create_shepard_tone(TritoneFreq(base_freq), dur, rate)
    IN  IF tone1.status = "raised" \/ tone2.status = "raised"
        THEN [status |-> "raised", tone1 |-> <<>>, tone2 |-> <<>>]
        ELSE [status |-> "returned", tone1 |-> tone1.signal, tone2 |-> tone2.signal]

-----------------------------------------------------------------------------
(* The frequency table of the script *)

NoteNames == <<"C", "C#", "D", "D#", "E", "F", "F#", "G", "G#", "A", "A#", "B">>

NoteFreqs == <<6541, 6930, 7342, 7778, 8241, 8731, 9250, 9800, 10383, 11000,
               11654, 12347>>

TableSize == Len(NoteNames)

FreqOf(note) == NoteFreqs[CHOOSE i \in 1..TableSize : NoteNames[i] = note]

-----------------------------------------------------------------------------
(* save_all_tritone_pairs *)

\* the factor of the 16-bit quantisation
Int16Scale == 32767

\* np.int16 of a NaN is an undefined C conversion: the outcomes builds give
NaNCasts == {-32768, 0}

\* np.int16(x * 32767): truncation toward zero
ToInt16(x, nan_cast) == IF IsNaN(x) THEN nan_cast ELSE Trunc(Int16Scale * x[1], x[2])

\* list(base_freq_map.items()) as a set of (note, freq) pairs
Items(map) == {<<note, map[note]>> : note \in DOMAIN map}

\* drawing each position afresh, as random.choices would
ShuffleWithRepeats(S) == [1..Cardinality(S) -> S]

\* the orders random.shuffle can leave a list of these items in
ShuffleOutcomes(S) ==
    {order \in [1..Cardinality(S) -> S] :
        \A i, j \in 1..Cardinality(S) : i # j => order[i] # order[j]}

\* one sample too many
GapOneMore(gap_dur, rate) == Zeros(Trunc(gap_dur * rate, 100) + 1)

\* np.zeros(int(gap_duration * sample_rate)), for a count >= 0
Gap(gap_dur, rate) == Zeros(Trunc(gap_dur * rate, 100))

\* the two tones in the other order
ConcatenateSwapped(buf, silence, tone1, tone2) == buf \o silence \o tone2 \o tone1

\* np.concatenate([combined, gap, tone1, tone2])
Concatenate(buf, silence, tone1, tone2) == buf \o silence \o tone1 \o tone2

\* the first note of the table on every line
NoteLineFirst(item) == NoteNames[1]

\* the line written for one item: f"{note}\n"
NoteLine(item) == item[1]

\* the frequency handed to create_tritone_pair for one item
ItemFreq(item) == item[2]

NoFile == [state |-> "absent", lines |-> <<>>]

NoWav == [state |-> "absent", rate |-> 0, data |-> <<>>]

Pending == [status |-> "pending", signal |-> <<>>]

NoEnvCall == [signal |-> <<>>, sample_rate |-> 0, attack_time |-> 0, release_time |-> 0]

NoToneCall == [base_freq |-> 0, duration |-> 0, sample_rate |-> 0]

Tables == {[note \in S |-> FreqOf(note)] : S \in SUBSET {NoteNames[i] : i \in 1..MaxNotes}}

SampleRates == {50 * k : k \in 0..MaxRateStep}

Durations == -1..MaxDuration

GapDurations == -1..MaxGapDuration

Init ==
    /\ base_freq_map \in Tables
    /\ duration \in Durations
    /\ sample_rate \in SampleRates
    /\ gap_duration \in GapDurations
    /\ pc = "start"
    /\ gap = <<>>
    /\ items = <<>>
    /\ next_item = 1
    /\ combined = <<>>
    /\ note_file = NoFile
    /\ wav_file = NoWav
    /\ synth = <<>>
    /\ env_call = NoEnvCall
    /\ env_result = Pending
    /\ tone_call = NoToneCall
    /\ tone_result = Pending

fn_vars == <<env_call, env_result, tone_call, tone_result>>

args == <<base_freq_map, duration, sample_rate, gap_duration>>

\* lines 97-98: combined = []; gap = np.zeros(...)
AllocGap ==
    /\ pc = "start"
    /\ IF Trunc(gap_duration * sample_rate, 100) < 0
       THEN pc' = "failed" /\ UNCHANGED <<gap, combined>>
       ELSE /\ gap' = Gap(gap_duration, sample_rate)
            /\ combined' = <<>>
            /\ pc' = "shuffle"
    /\ UNCHANGED <<args, items, next_item, note_file, wav_file, synth, fn_vars>>

\* lines 100-101: items = list(base_freq_map.items()); random.shuffle(items)
Shuffle ==
    /\ pc = "shuffle"
    /\ items' \in ShuffleOutcomes(Items(base_freq_map))
    /\ pc' = "open"
    /\ UNCHANGED <<args, gap, next_item, combined, note_file, wav_file, synth, fn_vars>>

\* lines 103-104: note_file = open(note_filename, "w")
OpenNoteFile ==
    /\ pc = "open"
    /\ note_file' = [state |-> "open", lines |-> <<>>]
    /\ pc' = "loop"
    /\ UNCHANGED <<args, gap, items, next_item, combined, wav_file, synth, fn_vars>>

\* lines 106-109: one iteration of the loop over items
LoopIteration ==
    /\ pc = "loop"
    /\ next_item <= Len(items)
    /\ LET item == items[next_item]
           pair == create_tritone_pair(ItemFreq(item), duration, sample_rate)
       IN  IF pair.status = "raised"
           THEN pc' = "failed" /\ UNCHANGED <<combined, note_file, synth, next_item>>
           ELSE /\ combined' = Concatenate(combined, gap, pair.tone1, pair.tone2)
                /\ note_file' = [note_file EXCEPT !.lines = Append(@, NoteLine(item))]
                /\ synth' = Append(synth, ItemFreq(item))
                /\ next_item' = next_item + 1
                /\ pc' = "loop"
    /\ UNCHANGED <<args, gap, items, wav_file, fn_vars>>

\* lines 111-112: audio_data = np.int16(combined * 32767); wavfile.write(...)
WriteWav ==
    /\ pc = "loop"
    /\ next_item > Len(items)
    /\ \E nan_cast \in NaNCasts :
         wav_file' = [state |-> "written", rate |-> sample_rate,
                      data |-> [i \in 1..Len(combined) |-> ToInt16(combined[i], nan_cast)]]
    /\ pc' = "done"
    /\ UNCHANGED <<args, gap, items, next_item, combined, note_file, synth, fn_vars>>

Next == AllocGap \/ Shuffle \/ OpenNoteFile \/ LoopIteration \/ WriteWav

Spec == Init /\ [][Next]_vars

-----------------------------------------------------------------------------
(* One call of apply_envelope on a buffer of the caller's *)

\* the samples of the caller's buffers: 1 and -1/2
EnvSamples == {<<1, 1>>, <<-1, 2>>}

EnvSignals == UNION {[1..n -> EnvSamples] : n \in 0..MaxLen}

EnvRates == {50, 100}

IdleAssembler ==
    /\ base_freq_map = <<>>
    /\ duration = 0
    /\ sample_rate = 0
    /\ gap_duration = 0
    /\ pc = "idle"
    /\ gap = <<>>
    /\ items = <<>>
    /\ next_item = 1
    /\ combined = <<>>
    /\ note_file = NoFile
    /\ wav_file = NoWav
    /\ synth = <<>>

InitEnvelope ==
    /\ IdleAssembler
    /\ env_call \in [signal : EnvSignals, sample_rate : EnvRates,
                     attack_time : 0..MaxRampTime, release_time : 0..MaxRampTime]
    /\ env_result = Pending
    /\ tone_call = NoToneCall
    /\ tone_result = Pending

ApplyEnvelopeCall ==
    /\ env_result.status = "pending"
    /\ env_result' = apply_envelope(env_call.signal, env_call.sample_rate,
                                    env_call.attack_time, env_call.release_time)
    /\ UNCHANGED <<asm_vars, env_call, tone_call, tone_result>>

NextEnvelope == ApplyEnvelopeCall

SpecEnvelope == InitEnvelope /\ [][NextEnvelope]_vars

-----------------------------------------------------------------------------
(* One call of create_shepard_tone *)

ToneFreqs == {NoteFreqs[i] : i \in 1..MaxNotes}

InitTone ==
    /\ IdleAssembler
    /\ env_call = NoEnvCall
    /\ env_result = Pending
    /\ tone_call \in [base_freq : ToneFreqs, duration : Durations,
                      sample_rate : SampleRates]
    /\ tone_result = Pending

CreateShepardToneCall ==
    /\ tone_result.status = "pending"
    /\ tone_result' = create_shepard_tone(tone_call.base_freq, tone_call.duration,
                                          tone_call.sample_rate)
    /\ UNCHANGED <<asm_vars, env_call, env_result, tone_call>>

NextTone == CreateShepardToneCall

SpecTone == InitTone /\ [][NextTone]_vars

-----------------------------------------------------------------------------
(* Properties of save_all_tritone_pairs, checked under Spec *)

\* the parameters of the call at the end of the script
MainDuration == 50
MainGapDuration == 500
DefaultSampleRate == 44100

Log == note_file.lines

ToneLen == NumSamples(duration, sample_rate)

GapLen == Trunc(gap_duration * sample_rate, 100)

SegmentLen == GapLen + 2 * ToneLen

\* the Shepard tone of the run's duration and sample rate at a frequency
ToneAt(freq) == create_shepard_tone(freq, duration, sample_rate).signal

\* the samples of the k-th (gap, tone1, tone2) segment of the buffer
SegmentOf(buf, k) == SubSeq(buf, (k - 1) * SegmentLen + 1, k * SegmentLen)

\* C1: when save_all_tritone_pairs completes, the note names written to the
\* log are a permutation of the table's note names: every name of the table
\* appears exactly once and no other name appears.
C1_LogIsPermutation ==
    pc = "done" =>
        /\ Len(Log) = Cardinality(DOMAIN base_freq_map)
        /\ \A i \in 1..Len(Log) : Log[i] \in DOMAIN base_freq_map
        /\ \A note \in DOMAIN base_freq_map :
               Cardinality({i \in 1..Len(Log) : Log[i] = note}) = 1

\* a completed run over at least two notes whose log is not in table order
C1_Witness ==
    /\ pc = "done"
    /\ Len(Log) >= 2
    /\ Log[1] # NoteNames[1]
    /\ NoteNames[1] \in DOMAIN base_freq_map

\* C2: after every loop iteration, the log has one line per segment of the
\* buffer, and the k-th line names the table entry whose frequency was handed
\* to the synthesis of the k-th segment, whose samples are the gap and the two
\* tones of that entry.
C2_LogMatchesAudio ==
    /\ Len(Log) = Len(synth)
    /\ Len(combined) = Len(Log) * SegmentLen
    /\ \A k \in 1..Len(Log) :
         /\ Log[k] \in DOMAIN base_freq_map
         /\ synth[k] = base_freq_map[Log[k]]
         /\ SegmentOf(combined, k) =
                Zeros(GapLen) \o ToneAt(base_freq_map[Log[k]])
                              \o ToneAt(TritoneFreq(base_freq_map[Log[k]]))

\* inside the loop, two segments written, of different notes and samples
C2_Witness ==
    /\ pc = "loop"
    /\ Len(Log) = 2
    /\ Log[1] # NoteNames[1]
    /\ SegmentOf(combined, 1) # SegmentOf(combined, 2)

\* C3: the buffer is, for each processed entry in the shuffled order, GapLen
\* zero samples, then tone1 at the entry's frequency, then tone2 at the
\* tritone frequency, with nothing before, between or after.  GapLen is
\* int(gap_duration * sample_rate), the floor of a product that is not
\* negative.
C3_BufferLayout ==
    pc \in {"loop", "done"} =>
        /\ Len(combined) = (next_item - 1) * SegmentLen
        /\ \A k \in 1..(next_item - 1) :
             LET base  == (k - 1) * SegmentLen
                 tone1 == create_shepard_tone(items[k][2], duration, sample_rate).signal
                 tone2 == create_shepard_tone(TritoneFreq(items[k][2]), duration,
                                              sample_rate).signal
             IN  /\ Len(tone1) = ToneLen
                 /\ Len(tone2) = ToneLen
                 /\ \A j \in 1..GapLen : combined[base + j] = Zero
                 /\ \A j \in 1..ToneLen : combined[base + GapLen + j] = tone1[j]
                 /\ \A j \in 1..ToneLen :
                        combined[base + GapLen + ToneLen + j] = tone2[j]

\* a completed run of two entries or more with a gap and two unlike tones
C3_Witness ==
    /\ pc = "done"
    /\ Len(items) >= 2
    /\ GapLen > 0
    /\ ToneAt(items[1][2]) # ToneAt(TritoneFreq(items[1][2]))

\* C4: the audio written for a table of N entries has N * (floor(gap_duration
\* * sample_rate) + 2 * floor(duration * sample_rate)) samples and the log N
\* lines; for the parameters of the script that is 12 * 264600 = 3175200.
\* Both counts are int(...), the floor of a product that is not negative.
C4_AudioLength ==
    /\ pc = "done" =>
         /\ Len(wav_file.data) =
                Cardinality(DOMAIN base_freq_map)
                    * (Trunc(gap_duration * sample_rate, 100)
                       + 2 * Trunc(duration * sample_rate, 100))
         /\ Len(Log) = Cardinality(DOMAIN base_freq_map)
    /\ TableSize = 12
    /\ Trunc(MainGapDuration * DefaultSampleRate, 100)
           + 2 * Trunc(MainDuration * DefaultSampleRate, 100) = 264600
    /\ TableSize * (Trunc(MainGapDuration * DefaultSampleRate, 100)
                    + 2 * Trunc(MainDuration * DefaultSampleRate, 100)) = 3175200

\* a completed run of two entries or more that wrote samples
C4_Witness ==
    /\ pc = "done"
    /\ Cardinality(DOMAIN base_freq_map) >= 2
    /\ Len(wav_file.data) > 2 * GapLen
    /\ GapLen > 0

\* C8: every sample of the assembled buffer lies in [-1, 1] and every
\* quantised sample in [-32767, 32767].
C8_SamplesInRange ==
    pc = "done" =>
        /\ \A i \in 1..Len(combined) : InUnit(combined[i])
        /\ \A i \in 1..Len(wav_file.data) :
               -Int16Scale <= wav_file.data[i] /\ wav_file.data[i] <= Int16Scale

\* C9: a run with a non-positive duration or sample rate fails before any
\* file I/O: neither file has been opened, created or written.
C9_FailsBeforeFileIO ==
    (pc = "failed" /\ (duration <= 0 \/ sample_rate <= 0)) =>
        (note_file.state = "absent" /\ wav_file.state = "absent")

-----------------------------------------------------------------------------
(* Properties of create_shepard_tone, checked under SpecTone *)

\* C5: every returned tone has floor(duration * sample_rate) samples, and its
\* first and last sample are zero, scaled by the zero end of each ramp.
C5_ToneEndsAtZero ==
    tone_result.status = "returned" =>
        /\ Len(tone_result.signal) =
               Trunc(tone_call.duration * tone_call.sample_rate, 100)
        /\ tone_result.signal[1] = Zero
        /\ tone_result.signal[Len(tone_result.signal)] = Zero

-----------------------------------------------------------------------------
(* Properties of apply_envelope, checked under SpecEnvelope *)

EnvLen == Len(env_call.signal)

AttackSamples == Trunc(env_call.attack_time * env_call.sample_rate, 100)

ReleaseSamples == Trunc(env_call.release_time * env_call.sample_rate, 100)

\* the value of the attack ramp at the i-th sample of the buffer (1-based)
AttackAt(i) ==
    IF AttackSamples = 1 THEN Zero ELSE Frac(i - 1, AttackSamples - 1)

\* the value of the release ramp at the i-th sample of the buffer (1-based)
ReleaseAt(i) ==
    IF ReleaseSamples = 1 THEN <<1, 1>>
    ELSE Frac(EnvLen - i, ReleaseSamples - 1)

\* the samples both ramps cover
Overlap == (EnvLen - ReleaseSamples + 1)..AttackSamples

RampsOverlap ==
    /\ AttackSamples <= EnvLen
    /\ ReleaseSamples <= EnvLen
    /\ EnvLen < AttackSamples + ReleaseSamples

TooShort == EnvLen < AttackSamples \/ EnvLen < ReleaseSamples

\* C6 as stated: apply_envelope raises for every buffer shorter than
\* attack_samples or shorter than release_samples.
C6_ShortBufferRaises ==
    (env_result.status # "pending" /\ TooShort) => env_result.status = "raised"

\* C6 as amended: apply_envelope raises for every buffer shorter than
\* attack_samples or release_samples, except the empty buffer when neither
\* ramp has more than one sample, which is returned empty.
C6_ShortBufferRaisesUnlessEmpty ==
    (env_result.status # "pending" /\ TooShort) =>
        IF EnvLen = 0 /\ AttackSamples <= 1 /\ ReleaseSamples <= 1
        THEN env_result = Returned(<<>>)
        ELSE env_result.status = "raised"

\* a non-empty buffer shorter than the attack ramp, refused
C6_Witness ==
    /\ env_result.status = "raised"
    /\ 0 < EnvLen
    /\ EnvLen < AttackSamples
    /\ ReleaseSamples <= EnvLen

\* C7 as stated: where the ramps overlap, each sample ends as the original
\* sample times the release-ramp value only.
C7_ReleaseWins ==
    (env_result.status = "returned" /\ RampsOverlap) =>
        \A i \in Overlap :
            env_result.signal[i] = Mul(env_call.signal[i], ReleaseAt(i))

\* C7 as amended: where the ramps overlap, each sample ends as the original
\* sample times the attack-ramp value times the release-ramp value.
C7_BothRampsApply ==
    (env_result.status = "returned" /\ RampsOverlap) =>
        \A i \in Overlap :
            env_result.signal[i] =
                Mul(Mul(env_call.signal[i], AttackAt(i)), ReleaseAt(i))

\* overlapping ramps, with a sample that the product and the release alone
\* leave different
C7_Witness ==
    /\ env_result.status = "returned"
    /\ RampsOverlap
    /\ \E i \in Overlap :
         /\ env_result.signal[i] # Mul(env_call.signal[i], ReleaseAt(i))
         /\ env_result.signal[i] # Zero

\* C10: for a buffer of at least attack_samples + release_samples samples,
\* apply_envelope returns, having scaled the first attack_samples samples by
\* the attack ramp and the last release_samples by the release ramp and left
\* the others as they were; a ramp of no sample touches nothing.
C10_FrameOfEnvelope ==
    (env_result.status # "pending" /\ EnvLen >= AttackSamples + ReleaseSamples) =>
        /\ env_result.status = "returned"
        /\ Len(env_result.signal) = EnvLen
        /\ \A i \in 1..EnvLen :
             env_result.signal[i] =
                 IF i <= AttackSamples
                 THEN Mul(env_call.signal[i], AttackAt(i))
                 ELSE IF i > EnvLen - ReleaseSamples
                 THEN Mul(env_call.signal[i], ReleaseAt(i))
                 ELSE env_call.signal[i]

====
